---- MODULE Spec2Model ----
(***************************************************************************)
(* The stage / pipeline / manager subsystem of ex2/nexus_pipeline.py.      *)
(*                                                                         *)
(* Python values are records [kind, v]:                                    *)
(*   str   v is the sequence of its characters                             *)
(*   int   v is the integer                                                *)
(*   list  v is the sequence of its elements                               *)
(*   dict  v is the sequence of <<key, value>> pairs in insertion order,   *)
(*         a key being the sequence of characters of a str                 *)
(*   none  v is <<>>                                                       *)
(* An envelope is an ordinary dict, as in the source.  A call returns      *)
(* [exc, val]: exc = "" and val the returned value, or exc the name of the *)
(* exception that left the call.                                           *)
(***************************************************************************)
EXTENDS Integers, Sequences, FiniteSets, TLC

VARIABLES
    pipelines,  \* NexusManager.pipelines: the adapters in insertion order, each [kind, stages]
    pc,         \* "idle", or how the last call ended: "returned" | "raised"
    raw,        \* the argument of the call
    data,       \* the value in flight; the returned value once the call ended
    exc,        \* the exception that left the call, "" when none
    calls,      \* the stage calls of the run, in order: [pl, st, stage, arg, exc, val]
    guards      \* the format guards of the run, in order: [pl, kind, arg, accepted, val]

vars == <<pipelines, pc, raw, data, exc, calls, guards>>

----------------------------------------------------------------------------
(* Values *)

PyStr(s) == [kind |-> "str", v |-> s]
PyInt(n) == [kind |-> "int", v |-> n]
PyList(l) == [kind |-> "list", v |-> l]
PyDict(d) == [kind |-> "dict", v |-> d]
PyNone == [kind |-> "none", v |-> <<>>]

Ok(x) == [exc |-> "", val |-> x]
Raise(e) == [exc |-> e, val |-> PyNone]

isinstance(x, kinds) == x.kind \in kinds

----------------------------------------------------------------------------
(* Literal text of the source *)

K_raw == <<"r", "a", "w">>
K_payload == <<"p", "a", "y", "l", "o", "a", "d">>
K_type == <<"t", "y", "p", "e">>
K_size == <<"s", "i", "z", "e">>
K_value == <<"v", "a", "l", "u", "e">>
K_unit == <<"u", "n", "i", "t">>
K_sensor == <<"s", "e", "n", "s", "o", "r">>
T_json == <<"j", "s", "o", "n">>
T_csv == <<"c", "s", "v">>
T_stream == <<"s", "t", "r", "e", "a", "m">>
T_invalid == <<"i", "n", "v", "a", "l", "i", "d">>
MsgNotJSON == <<" ", "i", "s", " ", "n", "o", "t", " ", "a", " ", "J", "S", "O", "N", "-", "l", "i", "k", "e", " ", "f", "o", "r", "m", "a", "t">>
MsgNotCSV == <<" ", "i", "s", " ", "n", "o", "t", " ", "a", " ", "C", "S", "V", "-", "l", "i", "k", "e", " ", "f", "o", "r", "m", "a", "t">>
MsgNotStream == <<" ", "i", "s", " ", "n", "o", "t", " ", "a", " ", "s", "t", "r", "e", "a", "m", "-", "l", "i", "k", "e", " ", "f", "o", "r", "m", "a", "t">>
MsgInvalidType == <<"I", "n", "v", "a", "l", "i", "d", " ", "t", "y", "p", "e">>
MsgReading == <<"P", "r", "o", "c", "e", "s", "s", "e", "d", " ", "t", "e", "m", "p", "e", "r", "a", "t", "u", "r", "e", " ", "r", "e", "a", "d", "i", "n", "g", ":", " ">>
MsgNormal == <<" ", " ", "(", "N", "o", "r", "m", "a", "l", " ", "r", "a", "n", "g", "e", ")">>
MsgReadingProcessed == <<" ", "r", "e", "a", "d", "i", "n", "g", " ", "p", "r", "o", "c", "e", "s", "s", "e", "d">>
MsgActivity == <<"U", "s", "e", "r", " ", "a", "c", "t", "i", "v", "i", "t", "y", " ", "l", "o", "g", "g", "e", "d", ":", " ">>
MsgActions == <<" ", "a", "c", "t", "i", "o", "n", "s", " ", "p", "r", "o", "c", "e", "s", "s", "e", "d">>
MsgStream == <<"S", "t", "r", "e", "a", "m", " ", "s", "u", "m", "m", "a", "r", "y", ":", " ">>
MsgReadings == <<" ", "r", "e", "a", "d", "i", "n", "g", "s">>
MsgAvg == <<",", " ", "a", "v", "g", ":", " ">>
NoneText == <<"N", "o", "n", "e">>
\* the degree sign of the rendered readings, one character
Degree == <<"°">>

----------------------------------------------------------------------------
(* Text: the str methods and operators the source uses *)

\* s.count(c)
Count(s, c) == Cardinality({i \in 1..Len(s) : s[i] = c})

\* c in s
Contains(s, c) == \E i \in 1..Len(s) : s[i] = c

\* s.split(c) for a one-character separator: the pieces between the
\* occurrences of c, one more piece than there are occurrences (halving at
\* a middle occurrence)
RECURSIVE split(_, _)
split(s, c) ==
    LET at == {i \in 1..Len(s) : s[i] = c}
        mid == CHOOSE i \in at : Cardinality({j \in at : j < i}) = Cardinality(at) \div 2
    IN  IF at = {} THEN <<s>>
        ELSE split(SubSeq(s, 1, mid - 1), c) \o split(SubSeq(s, mid + 1, Len(s)), c)

\* sep.join(parts)
RECURSIVE Join(_, _)
Join(parts, sep) ==
    IF parts = <<>> THEN <<>>
    ELSE IF Len(parts) = 1 THEN parts[1]
    ELSE LET m == Len(parts) \div 2
         IN  Join(SubSeq(parts, 1, m), sep) \o sep
               \o Join(SubSeq(parts, m + 1, Len(parts)), sep)

\* s.replace(c, text) for a one-character c
replace(s, c, text) == Join(split(s, c), text)

DigitText(d) == <<"0", "1", "2", "3", "4", "5", "6", "7", "8", "9">>[d + 1]

RECURSIVE NatText(_)
NatText(n) ==
    IF n < 10 THEN <<DigitText(n)>>
    ELSE NatText(n \div 10) \o <<DigitText(n % 10)>>

\* str(n) of an int
IntText(n) == IF n < 0 THEN <<"-">> \o NatText(0 - n) ELSE NatText(n)

\* the decimal digits of r/d after the point, by long division; exact when
\* the expansion terminates, cut after left digits otherwise
RECURSIVE FracText(_, _, _)
FracText(r, d, left) ==
    IF r = 0 \/ left = 0 THEN <<>>
    ELSE <<DigitText((r * 10) \div d)>> \o FracText((r * 10) % d, d, left - 1)

\* str(n / d) of the float that true division of two ints gives (n >= 0, d > 0)
FloatText(n, d) ==
    NatText(n \div d) \o <<".">> \o
    (IF n % d = 0 THEN <<"0">> ELSE FracText(n % d, d, 16))

\* repr(s) of a str of printable characters and line breaks: double quotes
\* when s holds a single quote and no double quote, single quotes otherwise;
\* backslashes, line breaks and the enclosing quote are escaped
StrRepr(s) ==
    LET quote == IF Contains(s, "'") /\ ~Contains(s, "\"") THEN "\"" ELSE "'"
        s1 == replace(s, "\\", <<"\\", "\\">>)
        s2 == replace(s1, "\n", <<"\\", "n">>)
        s3 == IF quote = "'" THEN replace(s2, "'", <<"\\", "'">>) ELSE s2
    IN  <<quote>> \o s3 \o <<quote>>

RECURSIVE repr(_)
RECURSIVE ReprItems(_)
RECURSIVE ReprPairs(_)
repr(x) ==
    CASE x.kind = "str" -> StrRepr(x.v)
      [] x.kind = "int" -> IntText(x.v)
      [] x.kind = "none" -> NoneText
      [] x.kind = "list" -> <<"[">> \o Join(ReprItems(x.v), <<",", " ">>) \o <<"]">>
      [] x.kind = "dict" -> <<"{">> \o Join(ReprPairs(x.v), <<",", " ">>) \o <<"}">>
ReprItems(l) ==
    IF l = <<>> THEN <<>> ELSE <<repr(Head(l))>> \o ReprItems(Tail(l))
ReprPairs(d) ==
    IF d = <<>> THEN <<>>
    ELSE <<StrRepr(Head(d)[1]) \o <<":", " ">> \o repr(Head(d)[2])>> \o ReprPairs(Tail(d))

\* f"{x}": str(x)
Format(x) == IF x.kind = "str" THEN x.v ELSE repr(x)

----------------------------------------------------------------------------
(* dict and subscript operations *)

HasKey(d, k) == \E i \in 1..Len(d) : d[i][1] = k

GetKey(d, k) == d[CHOOSE i \in 1..Len(d) : d[i][1] = k][2]

\* d[k] = x : replaces in place, or appends a new key
SetKey(d, k, x) ==
    IF HasKey(d, k)
    THEN [i \in 1..Len(d) |-> IF d[i][1] = k THEN <<k, x>> ELSE d[i]]
    ELSE Append(d, <<k, x>>)

\* x[k] for a str key k
Subscript(x, k) ==
    IF x.kind = "dict"
    THEN IF HasKey(x.v, k) THEN Ok(GetKey(x.v, k)) ELSE Raise("KeyError")
    ELSE Raise("TypeError")

\* len(x)
len(x) ==
    IF x.kind \in {"str", "list", "dict"} THEN Ok(PyInt(Len(x.v))) ELSE Raise("TypeError")

----------------------------------------------------------------------------
(* The stages *)

\* InputStage.process with the comma rule tried before the brace rule
InputStage_process_CommaFirst(x) ==
    LET out == <<<<K_raw, x>>>>
        tagged(tag) == PyDict(SetKey(out, K_type, PyStr(tag)))
    IN  IF isinstance(x, {"dict"})
        THEN Ok(PyDict(SetKey(SetKey(out, K_payload, x), K_type, PyStr(T_json))))
        ELSE IF isinstance(x, {"list"})
        THEN Ok(PyDict(SetKey(SetKey(out, K_payload, x), K_type, PyStr(T_stream))))
        ELSE IF ~isinstance(x, {"str"})
        THEN Ok(tagged(T_invalid))
        ELSE IF isinstance(x, {"str"}) /\ Contains(x.v, ",")
        THEN Ok(PyDict(SetKey(SetKey(out, K_type, PyStr(T_csv)), K_payload, x)))
        ELSE IF x.v # <<>> /\ x.v[1] = "{" /\ x.v[Len(x.v)] = "}"
        THEN Ok(PyDict(SetKey(SetKey(out, K_type, PyStr(T_json)), K_payload, x)))
        ELSE Ok(tagged(T_invalid))

\* InputStage.process: out = {"raw": data}, then the six rules in order
InputStage_process(x) ==
    LET out == <<<<K_raw, x>>>>
        tagged(tag) == PyDict(SetKey(out, K_type, PyStr(tag)))
    IN  IF isinstance(x, {"dict"})
        THEN Ok(PyDict(SetKey(SetKey(out, K_payload, x), K_type, PyStr(T_json))))
        ELSE IF isinstance(x, {"list"})
        THEN Ok(PyDict(SetKey(SetKey(out, K_payload, x), K_type, PyStr(T_stream))))
        ELSE IF ~isinstance(x, {"str"})
        THEN Ok(tagged(T_invalid))
        ELSE IF x.v # <<>> /\ x.v[1] = "{" /\ x.v[Len(x.v)] = "}"
        THEN Ok(PyDict(SetKey(SetKey(out, K_type, PyStr(T_json)), K_payload, x)))
        ELSE IF isinstance(x, {"str"}) /\ Contains(x.v, ",")
        THEN Ok(PyDict(SetKey(SetKey(out, K_type, PyStr(T_csv)), K_payload, x)))
        ELSE Ok(tagged(T_invalid))

\* [row.split(",") for row in rows]
SplitRows(rows) ==
    [i \in 1..Len(rows) |->
        LET fields == split(rows[i], ",")
        IN  PyList([j \in 1..Len(fields) |-> PyStr(fields[j])])]

\* the "csv" branch without the split on line breaks
TransformCsv_NoLineSplit(x) ==
    LET p == Subscript(x, K_payload)
    IN  IF p.exc # "" THEN Raise(p.exc)
        ELSE IF ~isinstance(p.val, {"str"}) THEN Raise("AttributeError")
        ELSE LET rows == SplitRows(<<p.val.v>>)
                 d1 == SetKey(x.v, K_payload, PyList(rows))
             IN  Ok(PyDict(SetKey(d1, K_size, PyInt(Len(rows)))))

\* the "csv" branch of TransformStage.process
TransformCsv(x) ==
    LET p == Subscript(x, K_payload)
    IN  IF p.exc # "" THEN Raise(p.exc)
        ELSE IF ~isinstance(p.val, {"str"}) THEN Raise("AttributeError")
        ELSE LET rows == SplitRows(split(p.val.v, "\n"))
                 d1 == SetKey(x.v, K_payload, PyList(rows))
             IN  Ok(PyDict(SetKey(d1, K_size, PyInt(Len(rows)))))

\* a size stored in a new mapping of type, payload and size only
Sized_Fresh(d, n) ==
    IF n.exc # "" THEN Raise(n.exc)
    ELSE Ok(PyDict(<< <<K_type, GetKey(d, K_type)>>, <<K_payload, GetKey(d, K_payload)>>,
                      <<K_size, n.val>> >>))

\* data["size"] = n
Sized(d, n) == IF n.exc # "" THEN Raise(n.exc) ELSE Ok(PyDict(SetKey(d, K_size, n.val)))

\* the "json" branch of TransformStage.process after data["size"] = 0
JsonSized(d0, p) ==
    IF p.exc # "" THEN Raise(p.exc)
    ELSE IF isinstance(p.val, {"str"})
    THEN Sized(d0, Ok(PyInt(Count(p.val.v, ":"))))
    ELSE Sized(d0, len(p.val))

\* the "json" branch of TransformStage.process
TransformJson(x) ==
    JsonSized(SetKey(x.v, K_size, PyInt(0)),
              Subscript(PyDict(SetKey(x.v, K_size, PyInt(0))), K_payload))

\* the "stream" branch of TransformStage.process, given data["payload"]
StreamSized(x, p) == IF p.exc # "" THEN Raise(p.exc) ELSE Sized(x.v, len(p.val))

\* the "stream" branch of TransformStage.process
TransformStream(x) == StreamSized(x, Subscript(x, K_payload))

\* TransformStage.process that lets an invalid envelope through
TransformStage_process_NoRaise(x) ==
    LET t == Subscript(x, K_type)
    IN  IF t.exc # "" THEN Raise(t.exc)
        ELSE IF t.val = PyStr(T_csv) THEN TransformCsv(x)
        ELSE IF t.val = PyStr(T_json) THEN TransformJson(x)
        ELSE IF t.val = PyStr(T_stream) THEN TransformStream(x)
        ELSE Ok(x)

TransformStage_process(x) ==
    LET t == Subscript(x, K_type)
    IN  IF t.exc # "" THEN Raise(t.exc)
        ELSE IF t.val = PyStr(T_invalid) THEN Raise("ValueError")
        ELSE IF t.val = PyStr(T_csv) THEN TransformCsv(x)
        ELSE IF t.val = PyStr(T_json) THEN TransformJson(x)
        ELSE IF t.val = PyStr(T_stream) THEN TransformStream(x)
        ELSE Ok(x)

\* the "json" branch of OutputStage.process
OutputJson(x) ==
    LET p == Subscript(x, K_payload)
    IN  IF p.exc # "" THEN Raise(p.exc)
        ELSE IF isinstance(p.val, {"dict"})
        THEN LET value == Subscript(p.val, K_value)
                 unit == Subscript(p.val, K_unit)
             IN  IF value.exc # "" THEN Raise(value.exc)
                 ELSE IF unit.exc # "" THEN Raise(unit.exc)
                 ELSE Ok(PyStr(MsgReading \o Format(value.val) \o Degree
                               \o Format(unit.val) \o MsgNormal))
        ELSE LET size == Subscript(x, K_size)
             IN  IF size.exc # "" THEN Raise(size.exc)
                 ELSE Ok(PyStr(MsgReading \o Format(size.val) \o MsgReadingProcessed))

\* the "csv" branch of OutputStage.process
OutputCsv(x) ==
    LET size == Subscript(x, K_size)
    IN  IF size.exc # "" THEN Raise(size.exc)
        ELSE Ok(PyStr(MsgActivity \o Format(size.val) \o MsgActions))

\* temps = [i["value"] for i in data["payload"]] : the elements the loop
\* visits (a dict yields its keys, a str its characters)
Iterate(p) ==
    CASE p.kind = "list" -> Ok(p.v)
      [] p.kind = "dict" -> Ok([i \in 1..Len(p.v) |-> PyStr(p.v[i][1])])
      [] p.kind = "str" -> Ok([i \in 1..Len(p.v) |-> PyStr(<<p.v[i]>>)])
      [] OTHER -> Raise("TypeError")

RECURSIVE Temps(_)
Temps(items) ==
    IF items = <<>> THEN Ok(<<>>)
    ELSE LET h == Subscript(Head(items), K_value)
         IN  IF h.exc # "" THEN Raise(h.exc)
             ELSE LET rest == Temps(Tail(items))
                  IN  IF rest.exc # "" THEN Raise(rest.exc)
                      ELSE Ok(<<h.val>> \o rest.val)

RECURSIVE SumInts(_)
SumInts(xs) == IF xs = <<>> THEN 0 ELSE Head(xs).v + SumInts(Tail(xs))

\* sum(temps)
sum(temps) ==
    IF \A i \in 1..Len(temps) : temps[i].kind = "int"
    THEN Ok(PyInt(SumInts(temps)))
    ELSE Raise("TypeError")

\* the summary with the mean: sum(temps)/data['size'] and the first unit
StreamMean(records, size, total) ==
    IF total.exc # "" THEN Raise(total.exc)
    ELSE IF size.kind # "int" THEN Raise("TypeError")
    ELSE IF size.v = 0 THEN Raise("ZeroDivisionError")
    ELSE IF records = <<>> THEN Raise("IndexError")
    ELSE IF Subscript(Head(records), K_unit).exc # ""
    THEN Raise(Subscript(Head(records), K_unit).exc)
    ELSE Ok(PyStr(MsgStream \o Format(size) \o MsgReadings \o MsgAvg
                  \o FloatText(total.val.v, size.v)
                  \o Degree \o Format(GetKey(Head(records).v, K_unit))))

\* the rest of the "stream" branch without the branch on emptiness
StreamSummary_NoEmptyBranch(payload, temps, size) ==
    IF temps.exc # "" THEN Raise(temps.exc)
    ELSE IF size.exc # "" THEN Raise(size.exc)
    ELSE StreamMean(IF payload.kind = "list" THEN payload.v ELSE <<>>, size.val,
                    sum(temps.val))

\* the rest of the "stream" branch once temps is computed
StreamSummary(payload, temps, size) ==
    IF temps.exc # "" THEN Raise(temps.exc)
    ELSE IF size.exc # "" THEN Raise(size.exc)
    ELSE IF temps.val = <<>>
    THEN Ok(PyStr(MsgStream \o Format(size.val) \o MsgReadings))
    ELSE StreamMean(payload.v, size.val, sum(temps.val))

\* temps of the elements the loop over the payload visits
StreamTemps(items) == IF items.exc # "" THEN Raise(items.exc) ELSE Temps(items.val)

\* the "stream" branch of OutputStage.process, given data["payload"]
StreamOf(x, p) ==
    IF p.exc # "" THEN Raise(p.exc)
    ELSE StreamSummary(p.val, StreamTemps(Iterate(p.val)), Subscript(x, K_size))

\* the "stream" branch of OutputStage.process
OutputStream(x) == StreamOf(x, Subscript(x, K_payload))

OutputStage_process(x) ==
    LET t == Subscript(x, K_type)
    IN  IF t.exc # "" THEN Raise(t.exc)
        ELSE IF t.val = PyStr(T_invalid) THEN Ok(PyStr(MsgInvalidType))
        ELSE IF t.val = PyStr(T_json) THEN OutputJson(x)
        ELSE IF t.val = PyStr(T_csv) THEN OutputCsv(x)
        ELSE IF t.val = PyStr(T_stream) THEN OutputStream(x)
        ELSE Ok(PyNone)

----------------------------------------------------------------------------
(* Pipelines and the manager *)

StageKinds == {"InputStage", "TransformStage", "OutputStage"}
AdapterKinds == {"JSONAdapter", "CSVAdapter", "StreamAdapter"}

\* s.process(data) for a stage s of the given class
Stage_process(stage, x) ==
    CASE stage = "InputStage" -> InputStage_process(x)
      [] stage = "TransformStage" -> TransformStage_process(x)
      [] stage = "OutputStage" -> OutputStage_process(x)

\* the record of one stage call
Call(stage, x, r) == [stage |-> stage, arg |-> x, exc |-> r.exc, val |-> r.val]

\* the run that starts with call c and goes on as rest
Then(c, rest) == [exc |-> rest.exc, val |-> rest.val, calls |-> <<c>> \o rest.calls]

\* for s in self.stages: data = s.process(data) ; return data
\* [exc, val, calls]: calls lists every stage call made, [stage, arg, exc, val]
RECURSIVE RunStages(_, _)
RECURSIVE Ran(_, _, _)
RunStages(stages, x) ==
    IF stages = <<>> THEN [exc |-> "", val |-> x, calls |-> <<>>]
    ELSE Ran(stages, x, Stage_process(Head(stages), x))
\* the loop once its first stage returned or raised r
Ran(stages, x, r) ==
    IF r.exc # ""
    THEN [exc |-> r.exc, val |-> PyNone, calls |-> <<Call(Head(stages), x, r)>>]
    ELSE Then(Call(Head(stages), x, r), RunStages(Tail(stages), r.val))

\* a guard that raises where the code returns the message
Rejected_Raises(text) == [exc |-> "TypeError", val |-> PyNone, calls |-> <<>>, accepted |-> FALSE]

\* return f"{data} is not ..." of an adapter's guard
Rejected(text) == [exc |-> "", val |-> PyStr(text), calls |-> <<>>, accepted |-> FALSE]

\* return super().process(data) of an adapter
Accepted(run) == [exc |-> run.exc, val |-> run.val, calls |-> run.calls, accepted |-> TRUE]

JSONAdapter_process(stages, x) ==
    IF ~isinstance(x, {"str", "dict"}) THEN Rejected(Format(x) \o MsgNotJSON)
    ELSE Accepted(RunStages(stages, x))

\* CSVAdapter.process without the comma check
CSVAdapter_process_NoCommaCheck(stages, x) ==
    IF ~isinstance(x, {"str"}) THEN Rejected(Format(x) \o MsgNotCSV)
    ELSE Accepted(RunStages(stages, x))

CSVAdapter_process(stages, x) ==
    IF ~isinstance(x, {"str"}) \/ ~Contains(x.v, ",") THEN Rejected(Format(x) \o MsgNotCSV)
    ELSE Accepted(RunStages(stages, x))

StreamAdapter_process(stages, x) ==
    IF ~isinstance(x, {"list"}) \/ \E i \in 1..Len(x.v) : ~isinstance(x.v[i], {"dict"})
    THEN Rejected(Format(x) \o MsgNotStream)
    ELSE Accepted(RunStages(stages, x))

\* i.process(data) for a pipeline i = [kind, stages]
Pipeline_process(p, x) ==
    CASE p.kind = "JSONAdapter" -> JSONAdapter_process(p.stages, x)
      [] p.kind = "CSVAdapter" -> CSVAdapter_process(p.stages, x)
      [] p.kind = "StreamAdapter" -> StreamAdapter_process(p.stages, x)

\* the record of the guard of pipeline number i, of the given kind, on x
Guard(i, kind, x, r) ==
    [pl |-> i, kind |-> kind, arg |-> x, accepted |-> r.accepted, val |-> r.val]

\* the stage calls of pipeline number i, numbered
Numbered(i, cs) ==
    [j \in 1..Len(cs) |->
        [pl |-> i, st |-> j, stage |-> cs[j].stage, arg |-> cs[j].arg,
         exc |-> cs[j].exc, val |-> cs[j].val]]

\* the run of the manager that starts with guard g and calls cs and goes
\* on as rest
After(g, cs, rest) ==
    [exc |-> rest.exc, val |-> rest.val, calls |-> cs \o rest.calls,
     guards |-> <<g>> \o rest.guards]

\* the data handed to the pipeline after one that returned r with handed
\* to every pipeline the raw input
HandOn_Raw(x, r) == x

\* data = i.process(data): what the next pipeline is handed
HandOn(x, r) == r.val

\* NexusManager.process_data from pipeline number i on
\* [exc, val, calls, guards]
RECURSIVE ProcessFrom(_, _, _)
RECURSIVE Processed(_, _, _, _)
ProcessFrom(pls, i, x) ==
    IF i > Len(pls) THEN [exc |-> "", val |-> x, calls |-> <<>>, guards |-> <<>>]
    ELSE Processed(pls, i, x, Pipeline_process(pls[i], x))
\* the loop once pipeline number i returned or raised r
Processed(pls, i, x, r) ==
    IF r.exc # ""
    THEN [exc |-> r.exc, val |-> PyNone, calls |-> Numbered(i, r.calls),
          guards |-> <<Guard(i, pls[i].kind, x, r)>>]
    ELSE After(Guard(i, pls[i].kind, x, r), Numbered(i, r.calls),
               ProcessFrom(pls, i + 1, HandOn(x, r)))

NexusManager_process_data(pls, x) == ProcessFrom(pls, 1, x)

----------------------------------------------------------------------------
(* Inputs *)

MaxPipelines == 2
MaxStages == 3
ChainPipelines == 3
ChainStages == 4
MaxCalls == 3
MaxLen == 3
MaxList == 2

Text(s) == PyStr(s)

Reading(n) ==
    PyDict(<< <<K_sensor, Text(<<"t", "e", "m", "p">>)>>, <<K_value, PyInt(n)>>,
              <<K_unit, Text(<<"C">>)>> >>)

\* a mapping with neither a value nor a unit key
SensorOnly == PyDict(<< <<K_sensor, Text(<<"t", "e", "m", "p">>)>> >>)

\* a mapping with a value but no unit key
ValueOnly == PyDict(<< <<K_value, PyInt(18)>> >>)

\* a record whose value is text
TextValue == PyDict(<< <<K_value, Text(<<"a">>)>>, <<K_unit, Text(<<"C">>)>> >>)

\* a caller-built mapping that has the keys of an envelope
HandMade ==
    PyDict(<< <<K_type, Text(T_stream)>>, <<K_payload, PyList(<<Reading(18)>>)>>,
              <<K_size, PyInt(0)>> >>)

BraceText == Text(<<"{", "a", ":", "1", ",", "b", ":", "2", "}">>)
OneLine == Text(<<"a", ",", "b">>)
TwoLines == Text(<<"a", ",", "b", "\n", "c", ",", "d">>)
PlainText == Text(<<"h", "i">>)

\* the raw inputs of process_data
RawInputs ==
    { Reading(23), SensorOnly, BraceText, OneLine, TwoLines, PlainText,
      PyList(<<>>), PyList(<<Reading(18), Reading(21)>>), PyList(<<PyInt(1)>>),
      PyInt(7) }

Alphabet == {"{", "}", ",", "\n", ":", "a"}

Texts == UNION {[1..n -> Alphabet] : n \in 0..MaxLen}

Records == {Reading(18), Reading(21), SensorOnly, TextValue}

Lists == UNION {[1..n -> Records] : n \in 0..MaxList}

\* the inputs of the stage calls
StageInputs ==
    {Text(s) : s \in Texts} \cup {PyList(l) : l \in Lists}
    \cup { Reading(23), SensorOnly, ValueOnly, PyDict(<<>>), HandMade,
           PyList(<<PyInt(1)>>), PyInt(7), PyNone }

----------------------------------------------------------------------------
(* The manager and its pipelines *)

\* the number of stages held by the first n pipelines
RECURSIVE StagesUpTo(_, _)
StagesUpTo(pls, n) ==
    IF n = 0 THEN 0 ELSE Len(pls[n].stages) + StagesUpTo(pls, n - 1)

TotalStages(pls) == StagesUpTo(pls, Len(pls))

Init ==
    /\ pipelines = <<>>
    /\ pc = "idle"
    /\ raw = PyNone
    /\ data = PyNone
    /\ exc = ""
    /\ calls = <<>>
    /\ guards = <<>>

\* manager.add_pipeline(kind(id)) : a new adapter, appended
add_pipeline(kind, bound) ==
    /\ pc = "idle"
    /\ Len(pipelines) < bound
    /\ pipelines' = Append(pipelines, [kind |-> kind, stages |-> <<>>])
    /\ UNCHANGED <<pc, raw, data, exc, calls, guards>>

\* add_stage that puts the new stage first
add_stage_Prepend(i, stage, bound) ==
    /\ pc = "idle"
    /\ TotalStages(pipelines) < bound
    /\ pipelines' = [pipelines EXCEPT ![i].stages = <<stage>> \o @]
    /\ UNCHANGED <<pc, raw, data, exc, calls, guards>>

\* pipelines[i].add_stage(stage())
add_stage(i, stage, bound) ==
    /\ pc = "idle"
    /\ TotalStages(pipelines) < bound
    /\ pipelines' = [pipelines EXCEPT ![i].stages = Append(@, stage)]
    /\ UNCHANGED <<pc, raw, data, exc, calls, guards>>

\* the call of process_data(x) ends with r
Ended(x, r) ==
    /\ pc' = IF r.exc = "" THEN "returned" ELSE "raised"
    /\ raw' = x
    /\ data' = r.val
    /\ exc' = r.exc
    /\ calls' = r.calls
    /\ guards' = r.guards

\* manager.process_data(x), to its return or to the exception that leaves it
process_data(x) ==
    /\ pc = "idle"
    /\ Ended(x, NexusManager_process_data(pipelines, x))
    /\ UNCHANGED pipelines

\* the caller takes the result, or catches the exception, and goes on
resume ==
    /\ pc \in {"returned", "raised"}
    /\ pc' = "idle"
    /\ raw' = PyNone
    /\ data' = PyNone
    /\ exc' = ""
    /\ calls' = <<>>
    /\ guards' = <<>>
    /\ UNCHANGED pipelines

AddPipeline == \E kind \in AdapterKinds : add_pipeline(kind, MaxPipelines)

AddStage ==
    \E i \in 1..Len(pipelines), stage \in StageKinds : add_stage(i, stage, MaxStages)

ProcessData == \E x \in RawInputs : process_data(x)

Next == AddPipeline \/ AddStage \/ ProcessData \/ resume

Spec == Init /\ [][Next]_vars

\* the chaining demo: structured adapters only
AddJSONPipeline == add_pipeline("JSONAdapter", ChainPipelines)

AddChainStage ==
    \E i \in 1..Len(pipelines), stage \in StageKinds : add_stage(i, stage, ChainStages)

NextChain == AddJSONPipeline \/ AddChainStage \/ ProcessData \/ resume

SpecChain == Init /\ [][NextChain]_vars

----------------------------------------------------------------------------
(* The stages alone: any stage applied to any value, and to what it returned *)

InitStages ==
    /\ pipelines = <<>>
    /\ pc = "stages"
    /\ raw \in StageInputs
    /\ data = raw
    /\ exc = ""
    /\ calls = <<>>
    /\ guards = <<>>

\* the call of a stage's process on data ends with r
Called(stage, r) ==
    /\ data' = r.val
    /\ exc' = r.exc
    /\ calls' = Append(calls, [pl |-> 0, st |-> Len(calls) + 1, stage |-> stage,
                               arg |-> data, exc |-> r.exc, val |-> r.val])

CallStage(stage) ==
    /\ pc = "stages"
    /\ exc = ""
    /\ Len(calls) < MaxCalls
    /\ Called(stage, Stage_process(stage, data))
    /\ UNCHANGED <<pipelines, pc, raw, guards>>

CallInputStage == CallStage("InputStage")
CallTransformStage == CallStage("TransformStage")
CallOutputStage == CallStage("OutputStage")

NextStages == CallInputStage \/ CallTransformStage \/ CallOutputStage

SpecStages == InitStages /\ [][NextStages]_vars

----------------------------------------------------------------------------
(* Properties *)

\* the value under key k of a mapping e, None when e has no such key
Field(e, k) == IF e.kind = "dict" /\ HasKey(e.v, k) THEN GetKey(e.v, k) ELSE PyNone

HasField(e, k) == e.kind = "dict" /\ HasKey(e.v, k)

Tagged(e, tag) == HasField(e, K_type) /\ Field(e, K_type) = PyStr(tag)

BraceDelimited(x) ==
    x.kind = "str" /\ Len(x.v) > 0 /\ x.v[1] = "{" /\ x.v[Len(x.v)] = "}"

HasComma(x) == x.kind = "str" /\ \E i \in 1..Len(x.v) : x.v[i] = ","

\* the envelope the six rules of InputStage prescribe for x
Classified(x, e) ==
    /\ HasField(e, K_raw) /\ Field(e, K_raw) = x
    /\ IF x.kind = "dict" THEN Tagged(e, T_json) /\ HasField(e, K_payload) /\ Field(e, K_payload) = x
       ELSE IF x.kind = "list" THEN Tagged(e, T_stream) /\ HasField(e, K_payload) /\ Field(e, K_payload) = x
       ELSE IF x.kind # "str" THEN Tagged(e, T_invalid) /\ ~HasField(e, K_payload)
       ELSE IF BraceDelimited(x) THEN Tagged(e, T_json) /\ HasField(e, K_payload) /\ Field(e, K_payload) = x
       ELSE IF HasComma(x) THEN Tagged(e, T_csv) /\ HasField(e, K_payload) /\ Field(e, K_payload) = x
       ELSE Tagged(e, T_invalid) /\ ~HasField(e, K_payload)

\* C1: every call of InputStage.process returns, raising nothing, the
\* envelope of the first of the six rules its input matches: a mapping is
\* tagged json with itself as payload, a list stream with itself as payload,
\* any other non-text invalid without payload, brace-delimited text json
\* with the text as payload (also when it holds a comma), other text with a
\* comma csv with the text as payload, and the rest (the empty text too)
\* invalid.
C1_InputClassifies ==
    \A i \in 1..Len(calls) :
        calls[i].stage = "InputStage" =>
            calls[i].exc = "" /\ Classified(calls[i].arg, calls[i].val)

\* brace-delimited text that holds a comma was classified, and tagged json
C1_Witness ==
    \E i \in 1..Len(calls) :
        /\ calls[i].stage = "InputStage"
        /\ BraceDelimited(calls[i].arg) /\ HasComma(calls[i].arg)
        /\ Tagged(calls[i].val, T_json)

\* what each adapter's format guard lets through
GuardAccepts(kind, x) ==
    CASE kind = "JSONAdapter" -> x.kind \in {"str", "dict"}
      [] kind = "CSVAdapter" -> HasComma(x)
      [] kind = "StreamAdapter" ->
            x.kind = "list" /\ \A i \in 1..Len(x.v) : x.v[i].kind = "dict"

RejectionText(kind) ==
    CASE kind = "JSONAdapter" -> MsgNotJSON
      [] kind = "CSVAdapter" -> MsgNotCSV
      [] kind = "StreamAdapter" -> MsgNotStream

\* C2: each adapter's guard accepts exactly text or a mapping (JSONAdapter),
\* text with a comma (CSVAdapter), a list of mappings, the empty list too
\* (StreamAdapter); a pipeline whose guard does not accept its input returns
\* the rejection text, raises nothing and calls none of its stages.
C2_GuardBeforeStages ==
    \A k \in 1..Len(guards) :
        LET g == guards[k]
        IN  /\ g.accepted <=> GuardAccepts(g.kind, g.arg)
            /\ ~g.accepted =>
                  /\ g.val = PyStr(Format(g.arg) \o RejectionText(g.kind))
                  /\ \A i \in 1..Len(calls) : calls[i].pl # g.pl
                  /\ (k = Len(guards) => pc = "returned")

\* a pipeline that holds stages rejected its input
C2_Witness ==
    \E k \in 1..Len(guards) :
        /\ ~guards[k].accepted
        /\ pipelines[guards[k].pl].stages # <<>>
        /\ guards[k].kind = "CSVAdapter" /\ guards[k].arg.kind = "str"

\* C3: a TransformStage call on an envelope tagged invalid raises ValueError,
\* is the last stage call of the run, and the ValueError leaves
\* Pipeline.process and process_data (no value is returned, nothing is
\* retried); so does every run in which InputStage tags the accepted input
\* invalid and TransformStage is the next stage.
C3_InvalidRaises ==
    \A i \in 1..Len(calls) :
        /\ (calls[i].stage = "TransformStage" /\ Tagged(calls[i].arg, T_invalid)) =>
              /\ calls[i].exc = "ValueError"
              /\ i = Len(calls)
              /\ pc = "raised" /\ exc = "ValueError" /\ data = PyNone
        /\ ( /\ calls[i].stage = "InputStage"
             /\ Tagged(calls[i].val, T_invalid)
             /\ calls[i].st < Len(pipelines[calls[i].pl].stages)
             /\ pipelines[calls[i].pl].stages[calls[i].st + 1] = "TransformStage" ) =>
              /\ Len(calls) = i + 1
              /\ calls[i + 1].stage = "TransformStage" /\ calls[i + 1].arg = calls[i].val
              /\ pc = "raised" /\ exc = "ValueError"

\* a pipeline of three stages accepted plain text, and the run ended in
\* the ValueError of its second stage
C3_Witness ==
    /\ pc = "raised" /\ exc = "ValueError"
    /\ Len(guards) = 1 /\ guards[1].accepted /\ guards[1].kind = "JSONAdapter"
    /\ raw = PlainText
    /\ Len(calls) = 2 /\ Len(pipelines[1].stages) = 3

\* C4 as claimed: once a format guard of the run has rejected its input,
\* process_data does not raise.
C4_RejectionNeverRaises ==
    (\E k \in 1..Len(guards) : ~guards[k].accepted) => pc # "raised"

\* C4 as amended: a pipeline whose guard rejects calls none of its stages
\* and returns text; the chain goes on, the next pipeline receiving that
\* text as its input; when the rejecting pipeline is the last one
\* process_data returns the text; and when process_data raises after a
\* rejection, the exception comes from a stage of a later pipeline whose own
\* guard accepted what it was handed.
C4_RejectionIsAValue ==
    \A k \in 1..Len(guards) :
        LET g == guards[k]
        IN  ~g.accepted =>
              /\ g.val.kind = "str"
              /\ \A i \in 1..Len(calls) : calls[i].pl # g.pl
              /\ g.pl < Len(pipelines) =>
                    /\ k < Len(guards)
                    /\ guards[k + 1].pl = g.pl + 1
                    /\ guards[k + 1].arg = g.val
              /\ g.pl = Len(pipelines) => pc = "returned" /\ data = g.val
              /\ pc = "raised" =>
                    /\ calls # <<>>
                    /\ calls[Len(calls)].exc = exc
                    /\ calls[Len(calls)].pl > g.pl
                    /\ guards[Len(guards)].pl = calls[Len(calls)].pl
                    /\ guards[Len(guards)].accepted

\* the first pipeline rejected plain text, the second accepted the
\* rejection text, and one of its stages raised
C4_Witness ==
    /\ pc = "raised"
    /\ Len(guards) = 2
    /\ ~guards[1].accepted /\ guards[1].kind = "StreamAdapter"
    /\ guards[2].accepted /\ guards[2].arg = guards[1].val
    /\ calls # <<>>

\* the stages of all pipelines, in order
RECURSIVE AllStages(_)
AllStages(pls) ==
    IF pls = <<>> THEN <<>> ELSE Head(pls).stages \o AllStages(Tail(pls))

\* pipelines A = [InputStage, TransformStage], B = [TransformStage],
\* C = [OutputStage], all structured adapters
DemoChain ==
    pipelines = << [kind |-> "JSONAdapter", stages |-> <<"InputStage", "TransformStage">>],
                   [kind |-> "JSONAdapter", stages |-> <<"TransformStage">>],
                   [kind |-> "JSONAdapter", stages |-> <<"OutputStage">>] >>

\* C5: when every pipeline of the run accepted what it was handed, the
\* manager's result (returned value or exception) is that of one pipeline
\* of the first adapter's kind holding all the stages in order, and the
\* stage calls are the same; for pipelines A, B, C and a mapping with value
\* and unit keys the result is the single-reading summary of that value and
\* unit.
C5_ChainEqualsConcat ==
    /\ ( /\ pc \in {"returned", "raised"}
         /\ pipelines # <<>>
         /\ \A k \in 1..Len(guards) : guards[k].accepted ) =>
           LET u == Pipeline_process([kind |-> pipelines[1].kind,
                                      stages |-> AllStages(pipelines)], raw)
           IN  /\ u.accepted
               /\ u.exc = exc
               /\ u.val = data
               /\ Len(u.calls) = Len(calls)
               /\ \A i \in 1..Len(calls) :
                     /\ u.calls[i].stage = calls[i].stage
                     /\ u.calls[i].arg = calls[i].arg
                     /\ u.calls[i].val = calls[i].val
    /\ ( /\ pc \in {"returned", "raised"}
         /\ DemoChain
         /\ HasField(raw, K_value) /\ HasField(raw, K_unit) ) =>
           /\ pc = "returned"
           /\ data = PyStr(MsgReading \o Format(Field(raw, K_value)) \o Degree
                           \o Format(Field(raw, K_unit)) \o MsgNormal)

\* the reading went through A, B and C: four stage calls in three pipelines
C5_Witness ==
    /\ DemoChain
    /\ raw = Reading(23)
    /\ pc = "returned"
    /\ Len(guards) = 3 /\ Len(calls) = 4
    /\ data.kind = "str"

\* call i received the envelope that the call just before it returned
Follows(i, stage) ==
    i > 1 /\ calls[i - 1].stage = stage /\ calls[i - 1].exc = ""
          /\ calls[i - 1].val = calls[i].arg

LineBreaks(text) == Cardinality({j \in 1..Len(text) : text[j] = "\n"})

\* the text of which rows are the comma-split lines
Unsplit(rows) ==
    Join([r \in 1..Len(rows) |->
            Join([f \in 1..Len(rows[r].v) |-> rows[r].v[f].v], <<",">>)], <<"\n">>)

\* C6: TransformStage, given the envelope InputStage tagged csv for a text
\* with N line breaks, returns it with a payload of exactly N+1 rows, row r
\* being the fields between the commas of line r, and size = N+1; an
\* OutputStage called next returns "User activity logged: N+1 actions
\* processed".
C6_RowsPerLine ==
    \A i \in 1..Len(calls) :
        ( /\ calls[i].stage = "TransformStage"
          /\ Follows(i, "InputStage")
          /\ Tagged(calls[i].arg, T_csv) ) =>
            LET text == Field(calls[i].arg, K_payload).v
                n == LineBreaks(text)
                rows == Field(calls[i].val, K_payload)
            IN  /\ calls[i].exc = ""
                /\ rows.kind = "list"
                /\ Len(rows.v) = n + 1
                /\ Field(calls[i].val, K_size) = PyInt(n + 1)
                /\ \A r \in 1..Len(rows.v) :
                      /\ rows.v[r].kind = "list"
                      /\ \A f \in 1..Len(rows.v[r].v) :
                            /\ rows.v[r].v[f].kind = "str"
                            /\ ~Contains(rows.v[r].v[f].v, ",")
                            /\ ~Contains(rows.v[r].v[f].v, "\n")
                /\ Unsplit(rows.v) = text
                /\ (i < Len(calls) /\ calls[i + 1].stage = "OutputStage") =>
                      /\ calls[i + 1].exc = ""
                      /\ calls[i + 1].val = PyStr(MsgActivity \o IntText(n + 1) \o MsgActions)

\* a text of two lines went through the three stages
C6_Witness ==
    /\ Len(calls) = 3
    /\ calls[1].stage = "InputStage" /\ Tagged(calls[1].val, T_csv)
    /\ LineBreaks(raw.v) = 1
    /\ calls[2].stage = "TransformStage" /\ calls[2].exc = ""
    /\ calls[3].stage = "OutputStage" /\ calls[3].exc = ""

\* the sum of the value fields of records
RECURSIVE SumValues(_)
SumValues(records) ==
    IF records = <<>> THEN 0
    ELSE Field(Head(records), K_value).v + SumValues(Tail(records))

\* C7: OutputStage, called on the envelope that InputStage made of a list
\* and TransformStage sized, never raises ZeroDivisionError: size is the
\* number of records; for the empty list the result is "Stream summary: 0
\* readings"; for a non-empty list size is at least 1 and a returned
\* summary quotes the mean over size and the unit of the first record.
C7_NoDivisionByZero ==
    \A i \in 1..Len(calls) :
        ( /\ calls[i].stage = "OutputStage"
          /\ Follows(i, "TransformStage")
          /\ Follows(i - 1, "InputStage")
          /\ calls[i - 2].arg.kind = "list" ) =>
            LET records == calls[i - 2].arg.v
                size == Field(calls[i].arg, K_size)
            IN  /\ Tagged(calls[i].arg, T_stream)
                /\ calls[i].exc # "ZeroDivisionError"
                /\ size = PyInt(Len(records))
                /\ records = <<>> =>
                      /\ calls[i].exc = ""
                      /\ calls[i].val = PyStr(MsgStream \o <<"0">> \o MsgReadings)
                /\ (records # <<>> /\ calls[i].exc = "") =>
                      /\ size.v >= 1
                      /\ calls[i].val =
                            PyStr(MsgStream \o IntText(Len(records)) \o MsgReadings
                                  \o MsgAvg \o FloatText(SumValues(records), Len(records))
                                  \o Degree \o Format(Field(records[1], K_unit)))

\* the empty list went through the three stages
C7_Witness ==
    /\ raw = PyList(<<>>)
    /\ Len(calls) = 3
    /\ calls[1].stage = "InputStage"
    /\ calls[2].stage = "TransformStage"
    /\ calls[3].stage = "OutputStage" /\ calls[3].exc = ""
    /\ data = PyStr(MsgStream \o <<"0">> \o MsgReadings)

\* C8 as claimed: OutputStage, called on a json-tagged envelope that went
\* through InputStage then TransformStage, raises nothing and returns text:
\* the single-reading summary of value and unit when the payload is a
\* mapping with both keys, the summary quoting size in every other case.
C8_StructuredSummary ==
    \A i \in 1..Len(calls) :
        ( /\ calls[i].stage = "OutputStage"
          /\ Follows(i, "TransformStage")
          /\ Follows(i - 1, "InputStage")
          /\ Tagged(calls[i].arg, T_json) ) =>
            LET p == Field(calls[i].arg, K_payload)
            IN  /\ calls[i].exc = ""
                /\ calls[i].val.kind = "str"
                /\ IF HasField(p, K_value) /\ HasField(p, K_unit)
                   THEN calls[i].val = PyStr(MsgReading \o Format(Field(p, K_value)) \o Degree
                                             \o Format(Field(p, K_unit)) \o MsgNormal)
                   ELSE calls[i].val = PyStr(MsgReading \o Format(Field(calls[i].arg, K_size))
                                             \o MsgReadingProcessed)

\* the stage calls of the run made by pipeline number n
CallsOf(n) == LET In(c) == c.pl = n IN SelectSeq(calls, In)

\* C9 as claimed: a pipeline whose guard accepted has called every one of
\* its stages exactly once, in insertion order.
C9_EveryStageOnce ==
    \A k \in 1..Len(guards) :
        guards[k].accepted =>
            LET cs == CallsOf(guards[k].pl)
            IN  [j \in 1..Len(cs) |-> cs[j].stage] = pipelines[guards[k].pl].stages

\* a pipeline whose guard accepted called its stages one at a time in
\* insertion order, each at most once and each on what the one before
\* returned, up to the first that raised; it called them all exactly when
\* none raised, and then returned the last one's output (its input when it
\* has no stage)
C9_Run ==
    \A k \in 1..Len(guards) :
        guards[k].accepted =>
            LET g == guards[k]
                cs == CallsOf(g.pl)
                st == pipelines[g.pl].stages
            IN  /\ Len(cs) <= Len(st)
                /\ \A j \in 1..Len(cs) :
                      /\ cs[j].st = j
                      /\ cs[j].stage = st[j]
                      /\ cs[j].arg = IF j = 1 THEN g.arg ELSE cs[j - 1].val
                      /\ j < Len(cs) => cs[j].exc = ""
                /\ Len(cs) < Len(st) =>
                      /\ cs # <<>>
                      /\ cs[Len(cs)].exc # ""
                      /\ pc = "raised" /\ exc = cs[Len(cs)].exc
                /\ (cs # <<>> /\ cs[Len(cs)].exc # "") => pc = "raised"
                /\ (cs = <<>> \/ cs[Len(cs)].exc = "") =>
                      /\ Len(cs) = Len(st)
                      /\ g.val = IF cs = <<>> THEN g.arg ELSE cs[Len(cs)].val

\* a step changes the lists only by appending one new empty pipeline or one
\* stage to one pipeline, and a process_data call leaves them as they are
C9_AppendOnly ==
    /\ (pc = "idle" /\ pc' # "idle") => pipelines' = pipelines
    /\ pipelines' # pipelines =>
          \/ \E kind \in AdapterKinds :
                pipelines' = Append(pipelines, [kind |-> kind, stages |-> <<>>])
          \/ \E i \in 1..Len(pipelines), stage \in StageKinds :
                pipelines' = [pipelines EXCEPT ![i].stages = Append(@, stage)]

\* C9 as amended: the stages called by an accepting pipeline are a prefix
\* of its stage list, in order and each once, the whole list exactly when no
\* stage raises (the last output is then returned); add_stage and
\* add_pipeline only append and process_data changes no list.
C9_StagesInOrder == []C9_Run /\ [][C9_AppendOnly]_vars

\* two pipelines holding three stages ran them all and returned
C9_Witness ==
    /\ pc = "returned"
    /\ Len(pipelines) = 2 /\ Len(guards) = 2
    /\ guards[1].accepted /\ guards[2].accepted
    /\ Len(calls) = 3
    /\ Len(CallsOf(1)) = 2 /\ Len(CallsOf(2)) = 1
    /\ data = calls[3].val

IsListOf(x, kind) == x.kind = "list" /\ \A j \in 1..Len(x.v) : x.v[j].kind = kind

\* the payload has the shape its tag stands for
PayloadMatchesTag(e) ==
    /\ Tagged(e, T_csv) =>
          /\ HasField(e, K_payload)
          /\ IsListOf(Field(e, K_payload), "list")
          /\ \A r \in 1..Len(Field(e, K_payload).v) :
                IsListOf(Field(e, K_payload).v[r], "str")
    /\ Tagged(e, T_stream) =>
          HasField(e, K_payload) /\ IsListOf(Field(e, K_payload), "dict")
    /\ Tagged(e, T_json) =>
          /\ HasField(e, K_payload)
          /\ Field(e, K_payload).kind = "dict" \/ BraceDelimited(Field(e, K_payload))

ValidTag(e) == Tagged(e, T_csv) \/ Tagged(e, T_stream) \/ Tagged(e, T_json)

\* C10 as claimed: every envelope a stage of a run returns has the payload
\* shape of its tag (csv: rows of fields, not text; stream: records; json:
\* a mapping or brace-delimited text), and a TransformStage or OutputStage
\* called on a validly tagged envelope returned by the stage before it does
\* not fault on the payload's shape (no AttributeError, no TypeError).
C10_PayloadMatchesTag ==
    \A i \in 1..Len(calls) :
        /\ (calls[i].stage \in {"InputStage", "TransformStage"} /\ calls[i].exc = "") =>
              PayloadMatchesTag(calls[i].val)
        /\ ( /\ calls[i].stage \in {"TransformStage", "OutputStage"}
             /\ Follows(i, "InputStage") \/ Follows(i, "TransformStage")
             /\ ValidTag(calls[i].arg) ) =>
              calls[i].exc \notin {"AttributeError", "TypeError"}

\* the mapping after is the mapping before with at most its payload and
\* size entries given new values and a size entry added: every key of
\* before is kept at its place, every other entry is kept as it was
OnlyPayloadAndSize(before, after) ==
    /\ before.kind = "dict" /\ after.kind = "dict"
    /\ Len(after.v) >= Len(before.v)
    /\ \A k \in 1..Len(before.v) :
          /\ after.v[k][1] = before.v[k][1]
          /\ before.v[k][1] \notin {K_payload, K_size} => after.v[k] = before.v[k]
    /\ \A k \in (Len(before.v) + 1)..Len(after.v) : after.v[k][1] = K_size

\* calls i+1..j of the run are TransformStage calls that returned
TransformedUpTo(i, j) ==
    \A m \in (i + 1)..j : calls[m].stage = "TransformStage" /\ calls[m].exc = ""

\* C11: every TransformStage call that returns, returns the envelope it was
\* given with the type and raw entries (and every entry but payload and
\* size) as they were; so after InputStage and any number of TransformStage
\* calls the envelope still has the type tag InputStage gave it and under
\* raw the original input. An OutputStage call returns a text or None, never
\* an envelope.
C11_TypeSetOnce ==
    \A i \in 1..Len(calls) :
        /\ (calls[i].stage = "TransformStage" /\ calls[i].exc = "") =>
              /\ OnlyPayloadAndSize(calls[i].arg, calls[i].val)
              /\ HasField(calls[i].val, K_type)
              /\ Field(calls[i].val, K_type) = Field(calls[i].arg, K_type)
              /\ HasField(calls[i].val, K_raw) = HasField(calls[i].arg, K_raw)
              /\ Field(calls[i].val, K_raw) = Field(calls[i].arg, K_raw)
        /\ (calls[i].stage = "InputStage" /\ calls[i].exc = "") =>
              \A j \in (i + 1)..Len(calls) :
                  TransformedUpTo(i, j) =>
                      /\ HasField(calls[j].val, K_type)
                      /\ Field(calls[j].val, K_type) = Field(calls[i].val, K_type)
                      /\ HasField(calls[j].val, K_raw)
                      /\ Field(calls[j].val, K_raw) = calls[i].arg
        /\ (calls[i].stage = "OutputStage" /\ calls[i].exc = "") =>
              calls[i].val.kind \in {"str", "none"}

\* InputStage tagged a text csv and TransformStage returned the envelope
\* with a new payload and a size, tag and raw as InputStage set them
C11_Witness ==
    /\ Len(calls) >= 2
    /\ calls[1].stage = "InputStage" /\ Tagged(calls[1].val, T_csv)
    /\ calls[2].stage = "TransformStage" /\ calls[2].exc = ""
    /\ Field(calls[2].val, K_payload) # Field(calls[2].arg, K_payload)
    /\ HasField(calls[2].val, K_size) /\ ~HasField(calls[2].arg, K_size)
    /\ Tagged(calls[2].val, T_csv)
    /\ Field(calls[2].val, K_raw) = raw

====
